---- MODULE Spec2Model ----
(***************************************************************************)
(* A model of the canary-reporting generators: the `gh` subcommand         *)
(* (generators/GitHubIssueGenerator.py) and the `js` subcommand            *)
(* (generators/JsonGenerator.py).                                          *)
(*                                                                         *)
(* Two specifications are given.                                           *)
(*   SpecSummary  the quality-gate summary, generate_summary, applied to   *)
(*                every aggregate-count tuple and gate pair of the bounds. *)
(*   Spec         one run of either subcommand from the parsed arguments   *)
(*                to its end: ignorelist loading, construction, report     *)
(*                generation, the output file and the issue tracker.       *)
(***************************************************************************)
EXTENDS Integers, Sequences, FiniteSets, TLC

VARIABLES
    generator,           \* the subcommand that runs: "gh" or "js"
    pc,                  \* the position of the run in its code
    args,                \* the argparse namespace handed to ..._from_args
    files,               \* the file system: the ignorelist file and the parsed XML results
    self,                \* the generator object's fields, once constructed
    aggregated_results,  \* self.aggregated_results: the reclassified results
    summary,             \* what generate_summary rendered
    message,             \* _message: the report (markdown body or JSON document)
    output,              \* the content of the output file, NoFile when not written
    stdout,              \* what the js subcommand printed instead, NoMessage when nothing
    calls,               \* the calls made to the issue tracker and how each ended, in order
    labels,              \* _tags: the labels found so far
    issue,               \* the issue created on the tracker, NoIssue when none
    raised,              \* the exception that reached the caller, "none" when none
    exit_status          \* the status given to exit(), -1 when exit() was not called

vars == <<generator, pc, args, files, self, aggregated_results, summary, message,
          output, stdout, calls, labels, issue, raised, exit_status>>

----------------------------------------------------------------------------
(* Bounds of the model. *)

MaxPassed == 10     \* passed test cases in a SpecSummary count tuple
MaxFailed == 2      \* failed test cases in a SpecSummary count tuple
MaxSkipped == 1     \* skipped test cases in a SpecSummary count tuple
MaxIgnored == 1     \* ignored failures in a SpecSummary count tuple
GateStep == 7       \* SpecSummary takes every GateStep-th gate of 0..MaxGate, and MaxGate
MaxResults == 3     \* parsed test cases in a run of Spec
MaxTags == 2        \* -t arguments in a run of Spec

(* The gates are percentages: "a number between 0 and 100". *)
MaxGate == 100

----------------------------------------------------------------------------
(* datamodel.ResultsAggregator: the four states and the aggregate the      *)
(* generators read.                                                        *)

passed == "passed"
failed == "failed"
skipped == "skipped"
ignored == "ignored"

(* The number of results of `results` in state `state`. *)
CountState(results, state) ==
    Cardinality({i \in DOMAIN results : results[i].state = state})

(* ResultsAggregator(files, ignorelist): a failed result whose name an     *)
(* ignorelist entry carries becomes ignored, with the order kept.          *)
ResultsAggregator(results, ignorelist) ==
    LET names == {ignorelist[i].name : i \in DOMAIN ignorelist}
    IN  [i \in DOMAIN results |->
            IF results[i].state = failed /\ results[i].name \in names
            THEN [results[i] EXCEPT !.state = ignored]
            ELSE results[i]]

(* get_counts(): total, passed, failed, skipped, ignored. *)
get_counts(results) ==
    <<Len(results), CountState(results, passed), CountState(results, failed),
      CountState(results, skipped), CountState(results, ignored)>>

(* get_results(): the reclassified list in file, then document, order. *)
get_results(results) == results

----------------------------------------------------------------------------
(* GitHubIssueGenerator: the symbol tables. *)

quality_symbols ==
    (failed :> ":red_circle:") @@ (passed :> ":white_check_mark:") @@ (ignored :> ":warning:")

status_symbols ==
    (failed :> ":x:") @@ (passed :> ":white_check_mark:")
        @@ (skipped :> ":large_blue_circle:") @@ (ignored :> ":large_orange_diamond:")

(* A variant of round that drops the fraction, as int() would. *)
round_truncating(num, den) == num \div den

(* round(num / den) for den > 0 and num >= 0: Python rounds a half to the  *)
(* even neighbour. The quotients the summary rounds are computed in        *)
(* floating point; for every total below 40 the float result equals the    *)
(* exact one.                                                              *)
round(num, den) ==
    LET q == num \div den
        r == num % den
    IN  IF 2 * r > den \/ (2 * r = den /\ q % 2 = 1) THEN q + 1 ELSE q

(* percentage >= gate * .8, for an integer percentage and an integer gate: *)
(* for every gate and percentage of 0..100 the float comparison equals the *)
(* exact one.                                                              *)
AtLeast80Percent(percentage, gate) == 10 * percentage >= 8 * gate

(* A variant of executed_icon whose first comparison is strict. *)
executed_icon_strict(percentage_executed, executed_quality_gate) ==
    IF percentage_executed > executed_quality_gate
    THEN quality_symbols[passed]
    ELSE IF AtLeast80Percent(percentage_executed, executed_quality_gate)
    THEN quality_symbols[ignored]
    ELSE quality_symbols[failed]

(* The icon of the percentage-executed gate. *)
executed_icon(percentage_executed, executed_quality_gate) ==
    IF percentage_executed >= executed_quality_gate
    THEN quality_symbols[passed]
    ELSE IF AtLeast80Percent(percentage_executed, executed_quality_gate)
    THEN quality_symbols[ignored]
    ELSE quality_symbols[failed]

(* The icon of the percentage-passing gate: the code compares the passing  *)
(* percentage with self.executed_quality_gate on both branches.            *)
passing_icon(percentage_passing, executed_quality_gate, passing_quality_gate) ==
    IF percentage_passing >= executed_quality_gate
    THEN quality_symbols[passed]
    ELSE IF AtLeast80Percent(percentage_passing, executed_quality_gate)
    THEN quality_symbols[ignored]
    ELSE quality_symbols[failed]

(* The summary before generate_summary has run. *)
NoSummary ==
    [error |-> "none", percentage_executed |-> -1, percentage_passing |-> -1,
     executed_icon |-> "", passing_icon |-> "",
     executed_gate_shown |-> -1, passing_gate_shown |-> -1, counts |-> <<>>]

(* A variant of generate_summary that leaves the ignored failures out of   *)
(* the executed test cases the passing percentage is taken of.             *)
generate_summary_without_ignored(counts, executed_quality_gate, passing_quality_gate) ==
    LET _total == counts[1]
        _passed == counts[2]
        _skipped == counts[4]
        _ignored == counts[5]
    IN  IF _total = 0 \/ _total - _skipped - _ignored <= 0
        THEN [NoSummary EXCEPT !.error = "ZeroDivisionError"]
        ELSE LET _percentage_exectued == round(100 * _total - 100 * _skipped, _total)
                 _percentage_passing == round(100 * _passed, _total - _skipped - _ignored)
             IN  [error |-> "none",
                  percentage_executed |-> _percentage_exectued,
                  percentage_passing |-> _percentage_passing,
                  executed_icon |->
                      executed_icon(_percentage_exectued, executed_quality_gate),
                  passing_icon |->
                      passing_icon(_percentage_passing, executed_quality_gate,
                                   passing_quality_gate),
                  executed_gate_shown |-> executed_quality_gate,
                  passing_gate_shown |-> passing_quality_gate,
                  counts |-> counts]

(* generate_summary: the two percentages, their icons, the gates printed   *)
(* next to them and the counts. Either division raises ZeroDivisionError   *)
(* when its divisor is 0.                                                  *)
generate_summary(counts, executed_quality_gate, passing_quality_gate) ==
    LET _total == counts[1]
        _passed == counts[2]
        _skipped == counts[4]
    IN  IF _total = 0 \/ _total - _skipped = 0
        THEN [NoSummary EXCEPT !.error = "ZeroDivisionError"]
        ELSE LET _percentage_exectued == round(100 * _total - 100 * _skipped, _total)
                 _percentage_passing == round(100 * _passed, _total - _skipped)
             IN  [error |-> "none",
                  percentage_executed |-> _percentage_exectued,
                  percentage_passing |-> _percentage_passing,
                  executed_icon |->
                      executed_icon(_percentage_exectued, executed_quality_gate),
                  passing_icon |->
                      passing_icon(_percentage_passing, executed_quality_gate,
                                   passing_quality_gate),
                  executed_gate_shown |-> executed_quality_gate,
                  passing_gate_shown |-> passing_quality_gate,
                  counts |-> counts]

----------------------------------------------------------------------------
(* The parts of the report around the summary. *)

None == "None"

(* get_status(): the worst state among the results, passed when there are none. *)
get_status(results) ==
    IF CountState(results, failed) > 0 THEN failed
    ELSE IF CountState(results, ignored) > 0 THEN ignored
    ELSE IF CountState(results, skipped) > 0 THEN skipped
    ELSE passed

header_symbols ==
    (failed :> ":red_circle:") @@ (passed :> ":white_check_mark:")
        @@ (skipped :> ":large_blue_circle:") @@ (ignored :> ":warning:")

(* generate_header, with no snapshot and no stage given. *)
generate_header(results) ==
    LET _status == get_status(results)
    IN  [symbol |-> header_symbols[_status], status |-> _status]

(* A variant of generate_body that reports the failed results alone. *)
generate_body_failed_only(results) ==
    LET IsFailed(r) == r.state = failed
        reported == SelectSeq(results, IsFailed)
    IN  [i \in DOMAIN reported |->
            [symbol |-> status_symbols[reported[i].state], name |-> reported[i].name]]

(* generate_body: one entry for each failed or ignored result, in order. *)
RECURSIVE generate_body(_)
generate_body(results) ==
    IF results = <<>> THEN <<>>
    ELSE LET _result == Head(results)
         IN  (IF _result.state = failed \/ _result.state = ignored
              THEN <<[symbol |-> status_symbols[_result.state], name |-> _result.name]>>
              ELSE <<>>) \o generate_body(Tail(results))

(* generate_issue_title, with no branch, snapshot or stage given. *)
generate_issue_title == "CICD Canary Build Failure"

(* The report before it is generated, the file before it is written, the   *)
(* tracker before an issue is created, the object before it is constructed.*)
NoMessage == [kind |-> "none"]
NoFile == [kind |-> "no file"]
NoIssue == [title |-> "", body |-> NoMessage, labels |-> <<>>]
NotConstructed ==
    [ignorelist |-> <<>>, executed_quality_gate |-> -1, passing_quality_gate |-> -1,
     tags |-> <<>>, dry_run |-> TRUE, output_file |-> None]

(* generate_github_issue_body: header, summary and body (the metadata      *)
(* section is empty when no URL or version is given). The summary's        *)
(* exception passes through.                                               *)
generate_github_issue_body(results, executed_quality_gate, passing_quality_gate) ==
    LET _summary == generate_summary(get_counts(results), executed_quality_gate,
                                     passing_quality_gate)
    IN  [error |-> _summary.error,
         summary |-> _summary,
         report |-> [kind |-> "markdown",
                     header |-> generate_header(results),
                     summary |-> _summary,
                     body |-> generate_body(get_results(results))]]

----------------------------------------------------------------------------
(* The command line and the files it names. *)

(* int(s) of a string of decimal digits, given as the sequence of its digits. *)
RECURSIVE int(_)
int(digits) ==
    IF digits = <<>> THEN 0
    ELSE 10 * int(SubSeq(digits, 1, Len(digits) - 1)) + digits[Len(digits)]

(* The ignorelist files of the model: absent (or not a regular file), and  *)
(* four contents.                                                          *)
IgnoreFiles ==
    {"absent", "not json", "{}", "[]", "{ignored_tests: []}", "{ignored_tests: [t1]}"}

(* json.loads(text). *)
json_loads(text) ==
    CASE text = "{}" ->
            [error |-> "none", type |-> "dict", has_ignored_tests |-> FALSE,
             ignored_tests |-> <<>>]
      [] text = "[]" ->
            [error |-> "none", type |-> "list", has_ignored_tests |-> FALSE,
             ignored_tests |-> <<>>]
      [] text = "{ignored_tests: []}" ->
            [error |-> "none", type |-> "dict", has_ignored_tests |-> TRUE,
             ignored_tests |-> <<>>]
      [] text = "{ignored_tests: [t1]}" ->
            [error |-> "none", type |-> "dict", has_ignored_tests |-> TRUE,
             ignored_tests |-> <<[name |-> 1, squad |-> "squad", owner |-> "owner"]>>]
      [] OTHER ->
            [error |-> "JSONDecodeError", type |-> "none", has_ignored_tests |-> FALSE,
             ignored_tests |-> <<>>]

(* The ignorelist loading of generate_github_issue_from_args: _ignorelist  *)
(* starts empty; the file is read only when a path is given and is a file; *)
(* only json.JSONDecodeError is caught. Subscripting a dict without the    *)
(* key raises KeyError, subscripting a list with a string raises TypeError.*)
load_ignorelist(ignore_list, file) ==
    IF ignore_list # None /\ file # "absent"
    THEN LET _il == json_loads(file)
         IN  IF _il.error = "JSONDecodeError" THEN [error |-> "none", _ignorelist |-> <<>>]
             ELSE IF _il.type # "dict" THEN [error |-> "TypeError", _ignorelist |-> <<>>]
             ELSE IF ~_il.has_ignored_tests THEN [error |-> "KeyError", _ignorelist |-> <<>>]
             ELSE [error |-> "none", _ignorelist |-> _il.ignored_tests]
    ELSE [error |-> "none", _ignorelist |-> <<>>]

(* The same lines of generate_json_report_from_args. *)
js_load_ignorelist(ignore_list, file) ==
    IF ignore_list # None /\ file # "absent"
    THEN LET _il == json_loads(file)
         IN  IF _il.error = "JSONDecodeError" THEN [error |-> "none", _ignorelist |-> <<>>]
             ELSE IF _il.type # "dict" THEN [error |-> "TypeError", _ignorelist |-> <<>>]
             ELSE IF ~_il.has_ignored_tests THEN [error |-> "KeyError", _ignorelist |-> <<>>]
             ELSE [error |-> "none", _ignorelist |-> _il.ignored_tests]
    ELSE [error |-> "none", _ignorelist |-> <<>>]

(* generate_json_report: the raw results and the fields that are not None. *)
generate_json_report(results, ignorelist, executed_quality_gate, passing_quality_gate) ==
    [kind |-> "json",
     results |-> results,
     counts |-> get_counts(results),
     ignorelist |-> ignorelist,
     executed_quality_gate |-> executed_quality_gate,
     passing_quality_gate |-> passing_quality_gate]

----------------------------------------------------------------------------
(* The inputs of a run. *)

(* Parsed test cases: the i-th test case of the run is named i; a case is  *)
(* parsed as passed, failed or skipped.                                    *)
ParsedResults ==
    UNION {[1..n -> {passed, failed, skipped}] : n \in 0..MaxResults}

Named(states) == [i \in DOMAIN states |-> [name |-> i, state |-> states[i]]]

(* -t arguments: the first tags of the usage example. *)
TagList == <<"blocker (P0)", "canary-failure", "Severity 1 - Urgent", "bug">>

TagArgs == {SubSeq(TagList, 1, n) : n \in 0..(IF MaxTags < 4 THEN MaxTags ELSE 4)}

(* "100", the default of both gate arguments, as its digits; the gate     *)
(* arguments of the model are "100" and "80".                              *)
DefaultGate == <<1, 0, 0>>

GateArgs == {DefaultGate, <<8, 0>>}

(* What a call to the issue tracker does: it answers, it raises            *)
(* UnknownObjectException (no such organization, repository or label), or  *)
(* it raises another GithubException.                                      *)
RemoteOutcomes == {"ok", "UnknownObjectException", "GithubException"}

Init ==
    /\ generator \in {"gh", "js"}
    /\ pc = "from_args"
    /\ \E ignore_list \in {None, "ignorelist.json"}, output_file \in {None, "out"},
          dry_run \in BOOLEAN, tags \in TagArgs, eg \in GateArgs, pg \in GateArgs :
          /\ generator = "js" => ~dry_run /\ tags = <<>>
          /\ args = [ignore_list |-> ignore_list,
                     executed_quality_gate |-> eg,
                     passing_quality_gate |-> pg,
                     dry_run |-> dry_run, output_file |-> output_file, tags |-> tags]
    /\ \E file \in IgnoreFiles, states \in ParsedResults :
          /\ args.ignore_list = None => file = "absent"
          /\ files = [ignorelist |-> file, results |-> Named(states)]
    /\ self = NotConstructed
    /\ aggregated_results = <<>>
    /\ summary = NoSummary
    /\ message = NoMessage
    /\ output = NoFile
    /\ stdout = NoMessage
    /\ calls = <<>>
    /\ labels = <<>>
    /\ issue = NoIssue
    /\ raised = "none"
    /\ exit_status = -1

----------------------------------------------------------------------------
(* The gh subcommand. *)

(* GitHubIssueGenerator.__init__: the fields the run reads. *)
GitHubIssueGenerator(ignorelist, executed_quality_gate, passing_quality_gate, tags, dry_run, output_file) ==
    [ignorelist |-> ignorelist, executed_quality_gate |-> executed_quality_gate,
     passing_quality_gate |-> passing_quality_gate, tags |-> tags,
     dry_run |-> dry_run, output_file |-> output_file]

(* generate_github_issue_from_args up to the call of open_github_issue:    *)
(* load the ignorelist, then construct the generator and its aggregate.    *)
generate_github_issue_from_args ==
    /\ generator = "gh" /\ pc = "from_args"
    /\ LET loaded == load_ignorelist(args.ignore_list, files.ignorelist)
       IN  IF loaded.error # "none"
           THEN /\ raised' = loaded.error
                /\ pc' = "raised"
                /\ UNCHANGED <<self, aggregated_results>>
           ELSE /\ self' = GitHubIssueGenerator(loaded._ignorelist,
                                int(args.executed_quality_gate),
                                int(args.passing_quality_gate),
                                args.tags, args.dry_run, args.output_file)
                /\ aggregated_results' = ResultsAggregator(files.results, loaded._ignorelist)
                /\ pc' = "open_github_issue"
                /\ UNCHANGED raised
    /\ UNCHANGED <<generator, args, files, summary, message, output, stdout, calls,
                   labels, issue, exit_status>>

(* open_github_issue, its first statement: _message is generated. *)
open_github_issue_message ==
    /\ generator = "gh" /\ pc = "open_github_issue"
    /\ LET generated == generate_github_issue_body(aggregated_results,
                            self.executed_quality_gate, self.passing_quality_gate)
       IN  /\ summary' = generated.summary
           /\ IF generated.error # "none"
              THEN /\ raised' = generated.error
                   /\ pc' = "raised"
                   /\ UNCHANGED message
              ELSE /\ message' = generated.report
                   /\ pc' = "write"
                   /\ UNCHANGED raised
    /\ UNCHANGED <<generator, args, files, self, aggregated_results, output, stdout,
                   calls, labels, issue, exit_status>>

(* A variant of open_github_issue_write that mirrors the report to the     *)
(* file in a dry run alone.                                                *)
open_github_issue_write_dry_run_only ==
    /\ generator = "gh" /\ pc = "write"
    /\ output' = IF self.output_file # None /\ self.dry_run THEN message ELSE output
    /\ pc' = IF self.dry_run THEN "dry_run" ELSE "get_organization"
    /\ UNCHANGED <<generator, args, files, self, aggregated_results, summary, message,
                   stdout, calls, labels, issue, raised, exit_status>>

(* open_github_issue: the report is written when output_file is not None;  *)
(* then the run takes the dry-run branch or goes to the tracker.           *)
open_github_issue_write ==
    /\ generator = "gh" /\ pc = "write"
    /\ output' = IF self.output_file # None THEN message ELSE output
    /\ pc' = IF self.dry_run THEN "dry_run" ELSE "get_organization"
    /\ UNCHANGED <<generator, args, files, self, aggregated_results, summary, message,
                   stdout, calls, labels, issue, raised, exit_status>>

(* The dry-run branch: it prints what would have been done. *)
open_github_issue_dry_run ==
    /\ generator = "gh" /\ pc = "dry_run"
    /\ pc' = "done"
    /\ UNCHANGED <<generator, args, files, self, aggregated_results, summary, message,
                   output, stdout, calls, labels, issue, raised, exit_status>>

(* A variant of Lookup that reports an unknown organization or repository *)
(* and goes on instead of ending the process.                              *)
Lookup_without_exit(call, next) ==
    \E outcome \in RemoteOutcomes :
        /\ calls' = Append(calls, [call |-> call, arg |-> "", outcome |-> outcome])
        /\ IF outcome = "GithubException"
           THEN pc' = "raised" /\ raised' = outcome /\ UNCHANGED exit_status
           ELSE pc' = next /\ UNCHANGED <<raised, exit_status>>

(* A lookup inside the try block of the organization and the repository:   *)
(* UnknownObjectException ends the process with exit(1), any other         *)
(* exception reaches the caller.                                           *)
Lookup(call, next) ==
    \E outcome \in RemoteOutcomes :
        /\ calls' = Append(calls, [call |-> call, arg |-> "", outcome |-> outcome])
        /\ CASE outcome = "ok" ->
                    pc' = next /\ UNCHANGED <<raised, exit_status>>
             [] outcome = "UnknownObjectException" ->
                    pc' = "exit" /\ exit_status' = 1 /\ UNCHANGED raised
             [] OTHER ->
                    pc' = "raised" /\ raised' = outcome /\ UNCHANGED exit_status

get_organization ==
    /\ generator = "gh" /\ pc = "get_organization"
    /\ Lookup("get_organization", "get_repo")
    /\ UNCHANGED <<generator, args, files, self, aggregated_results, summary, message,
                   output, stdout, labels, issue>>

get_repo ==
    /\ generator = "gh" /\ pc = "get_repo"
    /\ Lookup("get_repo", "get_label")
    /\ UNCHANGED <<generator, args, files, self, aggregated_results, summary, message,
                   output, stdout, labels, issue>>

(* The number of get_label calls made so far. *)
IsLabelCall(c) == c.call = "get_label"

LabelCalls == Len(SelectSeq(calls, IsLabelCall))

(* A variant of get_label that puts a found label in front of the others. *)
get_label_prepending ==
    /\ generator = "gh" /\ pc = "get_label"
    /\ LabelCalls < Len(self.tags)
    /\ LET tag == self.tags[LabelCalls + 1]
       IN  \E outcome \in RemoteOutcomes :
               /\ calls' = Append(calls, [call |-> "get_label", arg |-> tag,
                                           outcome |-> outcome])
               /\ CASE outcome = "ok" ->
                           /\ labels' = <<tag>> \o labels
                           /\ UNCHANGED <<pc, raised>>
                    [] outcome = "UnknownObjectException" ->
                           UNCHANGED <<pc, raised, labels>>
                    [] OTHER ->
                           /\ pc' = "raised" /\ raised' = outcome
                           /\ UNCHANGED labels
    /\ UNCHANGED <<generator, args, files, self, aggregated_results, summary, message,
                   output, stdout, issue, exit_status>>

(* One turn of the loop over self.tags: a label that is found is kept, an  *)
(* unknown one is skipped, any other exception reaches the caller.         *)
get_label ==
    /\ generator = "gh" /\ pc = "get_label"
    /\ LabelCalls < Len(self.tags)
    /\ LET tag == self.tags[LabelCalls + 1]
       IN  \E outcome \in RemoteOutcomes :
               /\ calls' = Append(calls, [call |-> "get_label", arg |-> tag,
                                           outcome |-> outcome])
               /\ CASE outcome = "ok" ->
                           /\ labels' = Append(labels, tag)
                           /\ UNCHANGED <<pc, raised>>
                    [] outcome = "UnknownObjectException" ->
                           UNCHANGED <<pc, raised, labels>>
                    [] OTHER ->
                           /\ pc' = "raised" /\ raised' = outcome
                           /\ UNCHANGED labels
    /\ UNCHANGED <<generator, args, files, self, aggregated_results, summary, message,
                   output, stdout, issue, exit_status>>

(* repo.create_issue(title, body=_message, labels=_tags), after the loop;  *)
(* no exception is caught here.                                            *)
create_issue ==
    /\ generator = "gh" /\ pc = "get_label"
    /\ LabelCalls = Len(self.tags)
    /\ \E outcome \in RemoteOutcomes :
           /\ calls' = Append(calls, [call |-> "create_issue", arg |-> "",
                                       outcome |-> outcome])
           /\ IF outcome = "ok"
              THEN /\ issue' = [title |-> generate_issue_title, body |-> message,
                                labels |-> labels]
                   /\ pc' = "done"
                   /\ UNCHANGED raised
              ELSE /\ pc' = "raised" /\ raised' = outcome
                   /\ UNCHANGED issue
    /\ UNCHANGED <<generator, args, files, self, aggregated_results, summary, message,
                   output, stdout, labels, exit_status>>

----------------------------------------------------------------------------
(* The js subcommand. *)

(* json.dumps(document): the text of the document. *)
json_dumps(document) == [kind |-> "json text", of |-> document]

(* JsonGenerator.__init__: the fields the run reads. *)
JsonGenerator(ignorelist, executed_quality_gate, passing_quality_gate) ==
    [NotConstructed EXCEPT !.ignorelist = ignorelist,
                           !.executed_quality_gate = executed_quality_gate,
                           !.passing_quality_gate = passing_quality_gate]

(* generate_json_report_from_args up to the construction of the generator. *)
generate_json_report_from_args ==
    /\ generator = "js" /\ pc = "from_args"
    /\ LET loaded == js_load_ignorelist(args.ignore_list, files.ignorelist)
       IN  IF loaded.error # "none"
           THEN /\ raised' = loaded.error
                /\ pc' = "raised"
                /\ UNCHANGED <<self, aggregated_results>>
           ELSE /\ self' = JsonGenerator(loaded._ignorelist,
                                int(args.executed_quality_gate),
                                int(args.passing_quality_gate))
                /\ aggregated_results' = ResultsAggregator(files.results, loaded._ignorelist)
                /\ pc' = "generate_json_report"
                /\ UNCHANGED raised
    /\ UNCHANGED <<generator, args, files, summary, message, output, stdout, calls,
                   labels, issue, exit_status>>

(* The rest of generate_json_report_from_args: the report is generated and *)
(* written to the output file, or printed when no output file is given.    *)
json_report_output ==
    /\ generator = "js" /\ pc = "generate_json_report"
    /\ message' = generate_json_report(aggregated_results, self.ignorelist,
                      self.executed_quality_gate, self.passing_quality_gate)
    /\ IF args.output_file # None
       THEN output' = json_dumps(message') /\ UNCHANGED stdout
       ELSE stdout' = json_dumps(message') /\ UNCHANGED output
    /\ pc' = "done"
    /\ UNCHANGED <<generator, args, files, self, aggregated_results, summary, calls,
                   labels, issue, raised, exit_status>>

(* The positions of a run that has ended: it returned, an exception        *)
(* reached the caller, or exit() was called.                               *)
Terminated == {"done", "raised", "exit"}

Next ==
    \/ generate_github_issue_from_args
    \/ open_github_issue_message
    \/ open_github_issue_write
    \/ open_github_issue_dry_run
    \/ get_organization
    \/ get_repo
    \/ get_label
    \/ create_issue
    \/ generate_json_report_from_args
    \/ json_report_output

Spec == Init /\ [][Next]_vars

----------------------------------------------------------------------------
(* The summary alone, over every count tuple and gate pair of the bounds.  *)

Gates == {g \in 0..MaxGate : g % GateStep = 0} \cup {MaxGate}

Rep(n, state) == [i \in 1..n |-> [name |-> i, state |-> state]]

(* A gh generator constructed directly (its gates are the constructor's   *)
(* keyword arguments, not a command line's) whose aggregate holds the      *)
(* given numbers of passed, failed, skipped and ignored results.           *)
InitSummary ==
    /\ generator = "gh"
    /\ pc = "generate_summary"
    /\ args = [ignore_list |-> None, executed_quality_gate |-> DefaultGate,
               passing_quality_gate |-> DefaultGate, dry_run |-> TRUE,
               output_file |-> None, tags |-> <<>>]
    /\ files = [ignorelist |-> "absent", results |-> <<>>]
    /\ \E eg \in Gates, pg \in Gates :
          self = GitHubIssueGenerator(<<>>, eg, pg, <<>>, TRUE, None)
    /\ \E p \in 0..MaxPassed, f \in 0..MaxFailed, s \in 0..MaxSkipped, g \in 0..MaxIgnored :
          aggregated_results =
              Rep(p, passed) \o Rep(f, failed) \o Rep(s, skipped) \o Rep(g, ignored)
    /\ summary = NoSummary
    /\ message = NoMessage
    /\ output = NoFile
    /\ stdout = NoMessage
    /\ calls = <<>>
    /\ labels = <<>>
    /\ issue = NoIssue
    /\ raised = "none"
    /\ exit_status = -1

(* A call of generate_summary on the constructed generator. *)
call_generate_summary ==
    /\ pc = "generate_summary"
    /\ summary' = generate_summary(get_counts(aggregated_results),
                      self.executed_quality_gate, self.passing_quality_gate)
    /\ IF summary'.error # "none"
       THEN pc' = "raised" /\ raised' = summary'.error
       ELSE pc' = "summarised" /\ UNCHANGED raised
    /\ UNCHANGED <<generator, args, files, self, aggregated_results, message, output,
                   stdout, calls, labels, issue, exit_status>>

NextSummary == call_generate_summary

SpecSummary == InitSummary /\ [][NextSummary]_vars

----------------------------------------------------------------------------
(* Properties of generate_summary, checked under SpecSummary.              *)

(* The three verdict levels and the icon that shows each. *)
PassIcon == ":white_check_mark:"
WarnIcon == ":warning:"
FailIcon == ":red_circle:"

(* The verdict of a percentage against a gate: pass at or above the gate,  *)
(* warn at or above four fifths of it, fail below.                         *)
Verdict(percentage, gate) ==
    IF percentage >= gate THEN PassIcon
    ELSE IF 5 * percentage >= 4 * gate THEN WarnIcon
    ELSE FailIcon

(* r is the integer nearest to num / den, the even one of two equally near. *)
IsRounded(r, num, den) ==
    LET d == num - r * den
        distance == IF d < 0 THEN -d ELSE d
    IN  /\ 2 * distance <= den
        /\ 2 * distance = den => r % 2 = 0

(* The counts generate_summary reads. *)
Counts == get_counts(aggregated_results)

Total == Counts[1]

Executed == Counts[1] - Counts[4]

(* C1: whenever the summary is rendered (total > skipped), the icon of the *)
(* passing percentage is the verdict of that percentage against            *)
(* passing_quality_gate, whatever executed_quality_gate is.                *)
C1_PassingIconFollowsPassingGate ==
    pc = "summarised" =>
        summary.passing_icon = Verdict(summary.percentage_passing, self.passing_quality_gate)

C3_ZeroTotalIsFullyPassing ==
    (Total = 0 /\ pc # "generate_summary") =>
        /\ pc = "summarised" /\ raised = "none"
        /\ summary.percentage_executed = 100
        /\ summary.percentage_passing = 100
        /\ summary.executed_icon = PassIcon
        /\ summary.passing_icon = PassIcon

(* C4: with total > 0 and every test case skipped the summary does not     *)
(* fail and the passing percentage is 100.                                 *)
C4_AllSkippedIsPassing ==
    (Total > 0 /\ Executed = 0 /\ pc # "generate_summary") =>
        /\ pc = "summarised" /\ raised = "none"
        /\ summary.percentage_passing = 100

(* C10: for total > 0 and total > skipped the summary is rendered with     *)
(* percentage_executed = round(100 - skipped / total * 100) and            *)
(* percentage_passing = round(passed / (total - skipped) * 100); for 10    *)
(* passed, 2 failed, 1 skipped, 0 ignored and gates 100/100 these are 92   *)
(* and 83 and both verdicts are warn.                                      *)
C10_PercentagesAreRounded ==
    (Total > 0 /\ Executed > 0 /\ pc # "generate_summary") =>
        /\ pc = "summarised"
        /\ IsRounded(summary.percentage_executed, 100 * Total - 100 * Counts[4], Total)
        /\ IsRounded(summary.percentage_passing, 100 * Counts[2], Executed)
        /\ (/\ Counts = <<13, 10, 2, 1, 0>>
            /\ self.executed_quality_gate = 100
            /\ self.passing_quality_gate = 100)
           => /\ summary.percentage_executed = 92
              /\ summary.percentage_passing = 83
              /\ summary.executed_icon = WarnIcon
              /\ summary.passing_icon = WarnIcon

(* C10's case: the summary of 10 passed, 2 failed, 1 skipped with gates    *)
(* 100/100.                                                                *)
C10_Witness ==
    /\ pc = "summarised"
    /\ Counts = <<13, 10, 2, 1, 0>>
    /\ self.executed_quality_gate = 100
    /\ self.passing_quality_gate = 100
    /\ summary.percentage_executed = 92

----------------------------------------------------------------------------
(* Properties of a run, checked under Spec.                                *)

(* The last call made to the issue tracker. *)
LastCall == calls[Len(calls)]

(* A gh run whose open_github_issue goes to the tracker and mirrors the    *)
(* report to a file.                                                       *)
SubmitsWithOutputFile ==
    /\ generator = "gh"
    /\ self # NotConstructed
    /\ ~self.dry_run
    /\ self.output_file # None

(* C5: with dry_run false and output_file set, a failure of the remote     *)
(* submission does not make the run fail: a run that contacted the tracker *)
(* ends normally, with the report in the output file.                      *)
C5_RemoteFailureDoesNotFailRun ==
    (SubmitsWithOutputFile /\ calls # <<>> /\ pc \in Terminated) =>
        /\ pc = "done" /\ raised = "none" /\ exit_status = -1
        /\ output = message

(* C5 as amended: with dry_run false and output_file set, the report is in *)
(* the output file before the tracker is contacted, and a failed call lets *)
(* the run go on only when it is an unknown label, which is skipped; an    *)
(* unknown organization or repository ends the process with exit(1), any   *)
(* other exception of a lookup and any exception of issue creation reaches *)
(* the caller, and in both cases no issue is created.                      *)
C5_RemoteFailureOutcomes ==
    (SubmitsWithOutputFile /\ calls # <<>>) =>
        /\ message # NoMessage /\ output = message
        /\ \A i \in 1..(Len(calls) - 1) :
              \/ calls[i].outcome = "ok"
              \/ calls[i].call = "get_label" /\ calls[i].outcome = "UnknownObjectException"
        /\ LastCall.outcome = "ok" =>
              /\ raised = "none" /\ exit_status = -1
              /\ pc = (IF LastCall.call = "get_organization" THEN "get_repo"
                       ELSE IF LastCall.call = "create_issue" THEN "done"
                       ELSE "get_label")
        /\ (LastCall.call = "get_label" /\ LastCall.outcome = "UnknownObjectException") =>
              /\ pc = "get_label" /\ raised = "none" /\ exit_status = -1
              /\ LastCall.arg \notin {labels[i] : i \in DOMAIN labels}
        /\ (/\ LastCall.call \in {"get_organization", "get_repo"}
            /\ LastCall.outcome = "UnknownObjectException") =>
              /\ pc = "exit" /\ exit_status = 1 /\ raised = "none"
              /\ issue = NoIssue
        /\ (\/ LastCall.outcome = "GithubException"
            \/ LastCall.call = "create_issue" /\ LastCall.outcome # "ok") =>
              /\ pc = "raised" /\ raised = LastCall.outcome /\ exit_status = -1
              /\ issue = NoIssue

(* C5's case: the organization or repository lookup failed as unknown in a *)
(* run with an output file, which holds the report.                        *)
C5_Witness ==
    /\ SubmitsWithOutputFile
    /\ calls # <<>>
    /\ LastCall.outcome = "UnknownObjectException"
    /\ LastCall.call = "get_repo"
    /\ pc = "exit"
    /\ output = message

(* C6: in both subcommands an ignorelist file that is a JSON object        *)
(* without the key ignored_tests is treated as an empty ignorelist: the    *)
(* generator is constructed with it, the run produces its report and no    *)
(* exception of the loading reaches the caller.                            *)
C6_MissingKeyIsEmptyIgnorelist ==
    (args.ignore_list # None /\ files.ignorelist = "{}" /\ pc \in Terminated) =>
        /\ self # NotConstructed /\ self.ignorelist = <<>>
        /\ message # NoMessage
        /\ raised \notin {"KeyError", "TypeError", "JSONDecodeError"}

(* C7: in both subcommands, when the ignorelist file is not valid JSON, no *)
(* ignorelist path is given or the path is not a file, the generator is    *)
(* constructed with an empty ignorelist and the run produces its report    *)
(* without an exception reaching the caller before it.                     *)
C7_MalformedIgnorelistIsEmpty ==
    (/\ args.ignore_list = None \/ files.ignorelist \in {"absent", "not json"}
     /\ pc \in Terminated) =>
        /\ self # NotConstructed /\ self.ignorelist = <<>>
        /\ message # NoMessage

(* C8: an issue is created only when the aggregated results hold a failed  *)
(* test case.                                                              *)
C8_IssueOnlyOnFailure ==
    issue # NoIssue => CountState(aggregated_results, failed) > 0

(* C9: with dry_run true, open_github_issue makes no call to the tracker   *)
(* and creates no issue, and the run ends with the report in output_file   *)
(* when output_file is set.                                                *)
C9_DryRunStaysLocal ==
    (generator = "gh" /\ self # NotConstructed /\ self.dry_run) =>
        /\ calls = <<>> /\ issue = NoIssue
        /\ (pc \in Terminated /\ self.output_file # None) =>
              (message # NoMessage /\ output = message)

----------------------------------------------------------------------------
(* Reclassification and the summary, checked under SpecSummary.            *)

(* The count tuples that differ from `counts` only in how the failures are *)
(* split between failed and ignored.                                       *)
Reclassified(counts) ==
    {<<counts[1], counts[2], f, counts[4], counts[3] + counts[5] - f>> :
        f \in 0..(counts[3] + counts[5])}

(* What a summary says of its two gates. *)
GateResult(s) ==
    <<s.error, s.percentage_executed, s.percentage_passing, s.executed_icon,
      s.passing_icon>>

(* C11: the summary of a count tuple and the summary of any tuple with the *)
(* same total, passed and skipped, whatever the split of the rest between  *)
(* failed and ignored, have the same two percentages and the same two      *)
(* icons (and fail alike when a divisor is 0).                             *)
C11_ReclassificationKeepsGates ==
    pc # "generate_summary" =>
        \A other \in Reclassified(Counts) :
            GateResult(generate_summary(other, self.executed_quality_gate,
                                        self.passing_quality_gate))
                = GateResult(summary)

(* C11's case: the summary of 10 passed, 1 failed, 1 skipped, 1 ignored,   *)
(* one of whose reclassifications is 10 passed, 2 failed, 1 skipped.       *)
C11_Witness ==
    /\ pc = "summarised"
    /\ Counts = <<13, 10, 1, 1, 1>>
    /\ <<13, 10, 2, 1, 0>> \in Reclassified(Counts)
    /\ summary.percentage_passing = 83

----------------------------------------------------------------------------
(* The labels of the issue, checked under Spec.                            *)

(* The label lookups made so far, and those that found their label. *)
LabelLookups == SelectSeq(calls, IsLabelCall)

IsFound(c) == c.outcome = "ok"

FoundLabels ==
    LET found == SelectSeq(LabelLookups, IsFound)
    IN  [i \in DOMAIN found |-> found[i].arg]

(* Every label lookup made so far found its label or failed as unknown. *)
OnlyUnknownLabels ==
    \A i \in DOMAIN LabelLookups :
        LabelLookups[i].outcome \in {"ok", "UnknownObjectException"}

(* The tracker was asked to create the issue, and how that ended. *)
CreateCalled == calls # <<>> /\ LastCall.call = "create_issue"

(* C12: with dry_run false the tags are looked up one by one in the order  *)
(* given; a tag whose lookup fails as unknown is skipped and the next tag  *)
(* is still looked up; the issue is created after every tag was looked up  *)
(* and carries exactly the labels that were found, in the order of the     *)
(* tags.                                                                   *)
C12_IssueCarriesFoundLabels ==
    (generator = "gh" /\ self # NotConstructed /\ ~self.dry_run) =>
        /\ Len(LabelLookups) <= Len(self.tags)
        /\ \A i \in DOMAIN LabelLookups : LabelLookups[i].arg = self.tags[i]
        /\ labels = FoundLabels
        /\ (LabelLookups # <<>> /\ OnlyUnknownLabels /\ ~CreateCalled) =>
              /\ pc = "get_label" /\ raised = "none" /\ exit_status = -1
              /\ Len(LabelLookups) < Len(self.tags) => ENABLED get_label
              /\ Len(LabelLookups) = Len(self.tags) => ENABLED create_issue
        /\ CreateCalled =>
              /\ Len(LabelLookups) = Len(self.tags)
              /\ OnlyUnknownLabels
              /\ LastCall.outcome = "ok" =>
                    /\ pc = "done"
                    /\ issue = [title |-> generate_issue_title, body |-> message,
                                labels |-> FoundLabels]
        /\ issue # NoIssue => (CreateCalled /\ LastCall.outcome = "ok")

(* C12's case: of two tags the first is unknown and the second is found,   *)
(* and the issue is created with the second alone.                         *)
C12_Witness ==
    /\ generator = "gh" /\ ~self.dry_run
    /\ Len(self.tags) = 2
    /\ Len(LabelLookups) = 2
    /\ LabelLookups[1].outcome = "UnknownObjectException"
    /\ LabelLookups[2].outcome = "ok"
    /\ issue # NoIssue
    /\ issue.labels = <<self.tags[2]>>

----------------------------------------------------------------------------
(* The body of the report, checked under Spec.                             *)

(* The positions in get_results() of the failed and the ignored results. *)
ReportedPositions ==
    {i \in DOMAIN get_results(aggregated_results) :
        get_results(aggregated_results)[i].state \in {"failed", "ignored"}}

(* The k-th of them, counting from the first. *)
ReportedPosition(k) ==
    CHOOSE i \in ReportedPositions :
        Cardinality({j \in ReportedPositions : j <= i}) = k

(* C13: the body of the markdown report holds one entry for each failed or *)
(* ignored result of get_results() and none for a passed or skipped one,   *)
(* and the k-th entry is that of the k-th such result: it carries its name *)
(* and the symbol of its state.                                            *)
C13_BodyListsFailuresInOrder ==
    (generator = "gh" /\ message # NoMessage) =>
        /\ Len(message.body) = Cardinality(ReportedPositions)
        /\ \A k \in DOMAIN message.body :
              LET result == get_results(aggregated_results)[ReportedPosition(k)]
              IN  /\ message.body[k].name = result.name
                  /\ message.body[k].symbol =
                        (IF result.state = "failed" THEN ":x:" ELSE ":large_orange_diamond:")

(* C13's case: an ignored, a passed and a failed result, in this order,    *)
(* reported as two entries.                                                *)
C13_Witness ==
    /\ generator = "gh" /\ message # NoMessage
    /\ Len(aggregated_results) = 3
    /\ aggregated_results[1].state = "ignored"
    /\ aggregated_results[2].state = "passed"
    /\ aggregated_results[3].state = "failed"
    /\ Len(message.body) = 2
    /\ message.body[1].name = aggregated_results[1].name
    /\ message.body[2].name = aggregated_results[3].name

----------------------------------------------------------------------------
(* The output file and the tracker, checked under Spec.                    *)

(* The last call is a lookup of the organization or the repository that    *)
(* did not answer.                                                         *)
OrgRepoLookupFailed ==
    /\ calls # <<>>
    /\ LastCall.call \in {"get_organization", "get_repo"}
    /\ LastCall.outcome # "ok"

====
